---- MODULE Spec2Model ----
(***************************************************************************)
(* Model of the enterprise-IM bot callback gateway:                        *)
(*   src/app/api/wecom.py           handle_message, process_dify_response, *)
(*                                  encrypt_message                        *)
(*   src/app/utils/wecom_message.py StreamMessageCache and reply builders  *)
(*                                                                         *)
(* handle_message is an `async def` without an await between decrypting    *)
(* the body and returning, so one HTTP call is one atomic step.  The       *)
(* background relay process_dify_response is split at its awaits.          *)
(*                                                                         *)
(* Text is a sequence of characters, so that ''.join, '\n'.join and        *)
(* str.strip are computed and not assumed.                                 *)
(***************************************************************************)
EXTENDS Integers, Sequences, FiniteSets, TLC

\* ------------------------------------------------------------------ bounds
MaxRequests == 3        \* POST callbacks handled in one behaviour of Spec
MaxDeliveries == 2      \* POST callbacks handled in one behaviour of SpecInbound
MaxStreams == 2         \* stream ids generate_random_string hands out
MaxChunks == 2          \* answer fragments the AI backend sends in total
MaxTicks == 1           \* times the clock advances
TickStep == 3601        \* seconds the clock advances in one Tick
MaxCalls == 4           \* direct calls on the cache in one behaviour of SpecCache
MaxClock == 5401        \* the time at which the clock of SpecCache stops
MaxBlocks == 2          \* AES blocks of 16 bytes in a downloaded image

\* ------------------------------------------------------- program constants
\* wecom_message.py:369  self._cleanup_interval = 3600
CleanupInterval == 3600
\* wecom_message.py:447  current_time - data['created_time'] > 3600
StreamTTL == 3600
\* wecom_message.py:432  len(self._processed_msgids) > 10000, scaled to the
\* size of MsgIds: the set overflows when it holds more than ProcessedCap.
ProcessedCap == 1
\* wecom_message.py:434  list(self._processed_msgids)[:5000], scaled likewise
EvictCount == 1

\* ------------------------------------------------------------ value spaces
NoField == "<nofield>"          \* a key missing from the decrypted JSON
None == "<None>"                \* Python None
NoTurn == [absent |-> TRUE]     \* stream id not in _cache
NoAgent == "<noagent>"
NoTask == [absent |-> TRUE]
NoEvent == "<noevent>"          \* the decrypted JSON has no 'event' key

MsgIds == {"m1", "m2"}
StreamIds == 1..MaxStreams
Agents == {NoAgent, "A1"}
Query == <<"q">>
Answers == {<<>>, <<"a">>, <<" ">>}
ConversationIds == {None, "c1"}

\* The fixed texts of the handler and the relay.
Thinking == <<"thinking">>
AnalysingImage == <<"analysing-image">>
AnalysingMixed == <<"analysing-mixed">>
Processing == <<"processing">>
DefaultPrompt == <<"analyse-this-image">>
Sorry == <<"sorry">>
ImageFailed == <<"image-failed">>

\* ---------------------------------------------------------------- strings
RECURSIVE Join(_)
\* ''.join(parts)
Join(parts) == IF parts = <<>> THEN <<>> ELSE Head(parts) \o Join(Tail(parts))

RECURSIVE JoinNl(_)
\* '\n'.join(parts)
JoinNl(parts) ==
    IF parts = <<>> THEN <<>>
    ELSE IF Len(parts) = 1 THEN Head(parts)
    ELSE Head(parts) \o <<"\n">> \o JoinNl(Tail(parts))

\* s.strip(): leading and trailing whitespace removed
RECURSIVE LStrip(_)
LStrip(s) == IF s # <<>> /\ Head(s) \in {" ", "\n"} THEN LStrip(Tail(s)) ELSE s

RECURSIVE RStrip(_)
RStrip(s) ==
    IF s # <<>> /\ s[Len(s)] \in {" ", "\n"}
    THEN RStrip(SubSeq(s, 1, Len(s) - 1)) ELSE s

Strip(s) == RStrip(LStrip(s))

\* hashlib.md5(image).hexdigest() and base64.b64encode(image)
Md5(image) == <<"md5", image>>
B64(image) == <<"b64", image>>

\* ----------------------------------------------------------- ReplyBuilder
\* make_text_stream with the finish flag stuck at True
make_text_stream_finished(stream_id, content, finish) ==
    [msgtype |-> "stream",
     stream |-> [id |-> stream_id, finish |-> TRUE, content |-> content]]

make_text_stream(stream_id, content, finish) ==
    [msgtype |-> "stream",
     stream |-> [id |-> stream_id, finish |-> finish, content |-> content]]

ImageItem(image) ==
    [msgtype |-> "image", image |-> [base64 |-> B64(image), md5 |-> Md5(image)]]

TextItem(content) ==
    [msgtype |-> "text", text |-> [content |-> content]]

make_image_stream(stream_id, image, finish) ==
    [msgtype |-> "stream",
     stream |-> [id |-> stream_id, finish |-> finish,
                 msg_item |-> <<ImageItem(image)>>]]

make_mixed_stream(stream_id, items, finish) ==
    [msgtype |-> "stream",
     stream |-> [id |-> stream_id, finish |-> finish, msg_item |-> items]]

make_template_card(card_data) ==
    [msgtype |-> "template_card", template_card |-> card_data]

make_welcome_template_card(agent_name) ==
    make_template_card([card_type |-> "text_notice", desc |-> agent_name])

\* ------------------------------------------------------ StreamMessageCache
NewTurn(user_query, t) ==
    [user_query |-> user_query, created_time |-> t, text_parts |-> <<>>,
     images |-> <<>>, is_finished |-> FALSE, conversation_id |-> None]

remove_stream(c, stream_id) ==
    [c EXCEPT ![stream_id] = NoTurn]

\* _cleanup_old_streams that spares the unfinished turns
cleanup_old_streams_finished_only(c, lastc, t) ==
    IF t - lastc < CleanupInterval
    THEN [cache |-> c, last_cleanup |-> lastc]
    ELSE [cache |-> [s \in StreamIds |->
                        IF /\ c[s] # NoTurn
                           /\ t - c[s].created_time > StreamTTL
                           /\ c[s].is_finished
                        THEN NoTurn ELSE c[s]],
          last_cleanup |-> t]

\* _cleanup_old_streams: [cache, last_cleanup] after the call at time t
cleanup_old_streams(c, lastc, t) ==
    IF t - lastc < CleanupInterval
    THEN [cache |-> c, last_cleanup |-> lastc]
    ELSE [cache |-> [s \in StreamIds |->
                        IF c[s] # NoTurn /\ t - c[s].created_time > StreamTTL
                        THEN NoTurn ELSE c[s]],
          last_cleanup |-> t]

create_stream(c, lastc, stream_id, user_query, t) ==
    cleanup_old_streams([c EXCEPT ![stream_id] = NewTurn(user_query, t)],
                        lastc, t)

\* add_text_part that makes a turn for a stream id that has none
add_text_part_creating(c, stream_id, text) ==
    IF c[stream_id] # NoTurn
    THEN [c EXCEPT ![stream_id].text_parts = Append(@, text)]
    ELSE [c EXCEPT ![stream_id] =
             [NewTurn(<<>>, 0) EXCEPT !.text_parts = <<text>>]]

\* add_text_part that keeps only the newest fragment
add_text_part_replacing(c, stream_id, text) ==
    IF c[stream_id] # NoTurn
    THEN [c EXCEPT ![stream_id].text_parts = <<text>>]
    ELSE c

add_text_part(c, stream_id, text) ==
    IF c[stream_id] # NoTurn
    THEN [c EXCEPT ![stream_id].text_parts = Append(@, text)]
    ELSE c

add_image(c, stream_id, image_data) ==
    IF c[stream_id] # NoTurn
    THEN [c EXCEPT ![stream_id].images = Append(@, image_data)]
    ELSE c

set_conversation_id(c, stream_id, conversation_id) ==
    IF c[stream_id] # NoTurn
    THEN [c EXCEPT ![stream_id].conversation_id = conversation_id]
    ELSE c

\* mark_finished that flips the flag
mark_finished_toggling(c, stream_id) ==
    IF c[stream_id] # NoTurn
    THEN [c EXCEPT ![stream_id].is_finished = ~@]
    ELSE c

mark_finished(c, stream_id) ==
    IF c[stream_id] # NoTurn
    THEN [c EXCEPT ![stream_id].is_finished = TRUE]
    ELSE c

\* _cache.get(stream_id)
get_stream_data(c, stream_id) == c[stream_id]

\* get_current_content that returns the newest fragment alone
get_current_content_newest(c, stream_id) ==
    IF c[stream_id] = NoTurn \/ c[stream_id].text_parts = <<>> THEN <<>>
    ELSE c[stream_id].text_parts[Len(c[stream_id].text_parts)]

\* get_current_content that joins the fragments with line breaks
get_current_content_lines(c, stream_id) ==
    IF c[stream_id] = NoTurn THEN <<>> ELSE JoinNl(c[stream_id].text_parts)

get_current_content(c, stream_id) ==
    IF c[stream_id] = NoTurn THEN <<>> ELSE Join(c[stream_id].text_parts)

\* is_finished that reports every stream as finished
is_finished_always(c, stream_id) == TRUE

is_finished(c, stream_id) ==
    IF c[stream_id] = NoTurn THEN TRUE ELSE c[stream_id].is_finished

\* is_message_processed that never finds a msgid
is_message_processed_never(p, msgid) == FALSE

is_message_processed(p, msgid) == msgid \in p

\* mark_message_processed that never evicts
mark_message_processed_unbounded(p, msgid) == {p \cup {msgid}}

\* mark_message_processed: the sets the call can leave behind.  On overflow
\* list(set)[:5000] takes the first entries in the set's iteration order,
\* which is hash order and not insertion order: any EvictCount entries.
mark_message_processed(p, msgid) ==
    LET added == p \cup {msgid} IN
    IF Cardinality(added) > ProcessedCap
    THEN {added \ old : old \in {o \in SUBSET added : Cardinality(o) = EvictCount}}
    ELSE {added}

\* ----------------------------------------------------------- CryptoEnvelope
NoPlain == [msgtype |-> "none"]

\* WXBizJsonMsgCrypt.EncryptMsg: (ret, resp).  Sealing has no failure in its
\* contract, so ret is 0; the sealed reply wraps the plaintext it was given.
EncryptMsg(plaintext) == [ret |-> 0, resp |-> [encrypt |-> plaintext]]

\* encrypt_message: after sealing it reads stream['stream']['id'] and
\* ['finish'] for its log line; a plaintext without a 'stream' key raises
\* KeyError there.
encrypt_message(stream) ==
    LET r == EncryptMsg(stream) IN
    IF r.ret # 0 THEN [exc |-> "HTTPException", resp |-> [encrypt |-> NoPlain]]
    ELSE IF "stream" \notin DOMAIN stream
         THEN [exc |-> "KeyError", resp |-> [encrypt |-> NoPlain]]
    ELSE [exc |-> "none", resp |-> r.resp]

\* ------------------------------------------------------------ HTTP replies
\* Response(content="success", media_type="text/plain")
PlainSuccess ==
    [status |-> 200, sealed |-> FALSE, text |-> "success", plain |-> NoPlain]

\* Response(content=encrypted_response, media_type="text/plain")
SealedResponse(encrypted) ==
    [status |-> 200, sealed |-> TRUE, text |-> "", plain |-> encrypted.encrypt]

\* HTTPException that always carries status 500
HTTPException_500(code) ==
    [status |-> 500, sealed |-> FALSE, text |-> "", plain |-> NoPlain]

\* raise HTTPException(status_code=code)
HTTPException(code) ==
    [status |-> code, sealed |-> FALSE, text |-> "", plain |-> NoPlain]

NoResponse ==
    [status |-> 0, sealed |-> FALSE, text |-> "", plain |-> NoPlain]

\* ------------------------------------------------------ decrypted messages
MsgItem(msgtype, content, url) ==
    [msgtype |-> msgtype, content |-> content, url |-> url]

MixedItems ==
    {MsgItem("text", Query, ""), MsgItem("text", <<>>, ""),
     MsgItem("image", <<>>, "u1"), MsgItem("image", <<>>, "")}

MixedLists ==
    {<<>>} \cup {<<i>> : i \in MixedItems}
           \cup {<<MsgItem("text", Query, ""), j>> : j \in MixedItems}

Data(msgtype, msgid, aibotid, content, url, items, stream_id, eventtype) ==
    [msgtype |-> msgtype, msgid |-> msgid, aibotid |-> aibotid,
     content |-> content, url |-> url, items |-> items,
     stream_id |-> stream_id, eventtype |-> eventtype]

Envelope(m, b) ==
       {Data("text", m, b, c, "", <<>>, 0, "") : c \in {Query, <<NoField>>}}
  \cup {Data("image", m, b, <<>>, "u1", <<>>, 0, "")}
  \cup {Data("mixed", m, b, <<>>, "", l, 0, "") : l \in MixedLists}
  \cup {Data("stream", m, b, <<>>, "", <<>>, s, "") : s \in StreamIds}
  \cup {Data("event", m, b, <<>>, "", <<>>, 0, e) :
            e \in {"enter_chat", "template_card_event", NoField, NoEvent}}
  \cup {Data(t, m, b, <<>>, "", <<>>, 0, "") : t \in {"voice", NoField}}

NoData == Data("none", "", "", <<>>, "", <<>>, 0, "")

\* What a POST delivers: whether msg_signature, timestamp and nonce are all
\* given, whether DecryptMsg returns 0, and the decrypted JSON.
Delivery(x) == [params |-> TRUE, decrypt |-> TRUE, data |-> x]

\* Every kind of callback, for the dispatch on the message type: from the
\* mapped bot "bot1", and a text message that names no bot.
Requests ==
       {[params |-> FALSE, decrypt |-> FALSE, data |-> NoData],
        [params |-> TRUE, decrypt |-> FALSE, data |-> NoData]}
  \cup {Delivery(x) : x \in UNION {Envelope(m, "bot1") : m \in MsgIds \cup {""}}}
  \cup {Delivery(Data("text", m, "", Query, "", <<>>, 0, "")) :
            m \in MsgIds \cup {""}}

\* A conversation: text messages and the platform's polls for their streams.
PollRequests ==
       {Delivery(Data("text", "", "", Query, "", <<>>, 0, ""))}
  \cup {Delivery(Data("stream", m, "", <<>>, "", <<>>, s, "")) :
            m \in {"", "m1"}, s \in StreamIds}

\* process_encrypted_image, seen from the handler: the download and the
\* decryption succeed (ok) with the decrypted image, or fail with a message.
process_encrypted_image(url, ok) ==
    IF ok THEN [success |-> TRUE, result |-> <<"image-of", url>>]
    ELSE [success |-> FALSE, result |-> ImageFailed]

\* -------------------------------------------------------------------- state
VARIABLES
    cache,          \* StreamMessageCache._cache: stream id -> turn or NoTurn
    processed,      \* StreamMessageCache._processed_msgids
    last_cleanup,   \* StreamMessageCache._last_cleanup
    now,            \* time.time(), seconds since the cache was constructed
    relay,          \* stream id -> the background task process_dify_response
    agent_db,       \* the active Agent the directory holds for a mapped bot
    issued,         \* number of stream ids generate_random_string has made
    nreq,           \* number of callbacks handled
    last,           \* the callback handled last: its data and how far it got
    seen,           \* msgids delivered so far in a text, image or mixed message
    resp,           \* the reply to the callback handled last
    ncalls,         \* number of direct calls made on the cache's methods
    call,           \* the direct call made last: the method and its stream id
    appended,       \* stream id -> the fragments add_text_part stored in its turn
    image_job,      \* the image process_encrypted_image is decrypting
    polled          \* stream id -> the last reply a poll for it was given

vars == <<cache, processed, last_cleanup, now, relay, agent_db, issued, nreq,
          last, seen, resp, ncalls, call, appended, image_job, polled>>

\* What a step of the gateway leaves alone: the record of the direct calls.
api == <<ncalls, call, appended, image_job, polled>>

\* No poll for the stream id has been answered with a stream reply.
NoPoll == [absent |-> TRUE]

\* No image is being decrypted.
NoImage == [data |-> <<>>, done |-> FALSE, success |-> FALSE, result |-> <<>>]

\* A background task that was never scheduled.
IdleRelay ==
    [pc |-> "none", user_query |-> <<>>, images |-> <<>>, agent |-> NoAgent,
     msgid |-> "", files |-> <<>>, sent |-> <<>>, ended |-> "none",
     conversation_id |-> None]

\* background_tasks.add_task(process_dify_response, stream_id, query, ...,
\* agent, images): the task waits until the reply has been returned.
Task(stream_id, user_query, agent, images, msgid) ==
    [stream_id |-> stream_id,
     task |-> [IdleRelay EXCEPT !.pc = "scheduled", !.user_query = user_query,
                                !.images = images, !.agent = agent,
                                !.msgid = msgid]]

\* What one run of handle_message leaves behind.
Out(r, c, p, task, used, stage) ==
    [resp |-> r, cache |-> c, processed |-> p, task |-> task, used |-> used,
     stage |-> stage]

\* except Exception that answers 400
Raised_as_400(exc, c, p, used) ==
    Out(HTTPException(400), c, p, NoTask, used, "dispatched")

\* except HTTPException: raise / except Exception: raise HTTPException(500)
Raised(exc, c, p, used) ==
    Out(HTTPException(500), c, p, NoTask, used, "dispatched")

\* generate_random_string(16): sixteen random letters and digits; the k-th id
\* made is written k (a 62^16 draw is taken not to repeat).
generate_random_string(k) == k

\* ------------------------------------------------------- handle_message
\* msgtype == 'text'
handle_text(data, c, p, agent) ==
    IF data.content = <<NoField>> THEN Raised("KeyError", c, p, 0)
    ELSE
    LET stream_id == generate_random_string(issued + 1)
        initial_response == make_text_stream(stream_id, Thinking, FALSE)
        enc == encrypt_message(initial_response)
    IN  IF enc.exc # "none" THEN Raised(enc.exc, c, p, 1)
        ELSE Out(SealedResponse(enc.resp), c, p,
                 Task(stream_id, data.content, agent, <<>>, data.msgid),
                 1, "dispatched")

\* final_response that puts the image items before the text item
final_response_images_first(stream_id, current_content, images) ==
    IF images # <<>> /\ current_content # <<>>
    THEN make_mixed_stream(stream_id,
            [i \in 1..Len(images) |-> ImageItem(images[i])]
            \o (IF Strip(current_content) # <<>>
                THEN <<TextItem(current_content)>> ELSE <<>>),
            TRUE)
    ELSE IF images # <<>>
    THEN make_image_stream(stream_id, images[1], TRUE)
    ELSE make_text_stream(stream_id, current_content, TRUE)

\* The final reply for a finished turn (the is_finished branch, lines 441-473)
final_response(stream_id, current_content, images) ==
    IF images # <<>> /\ current_content # <<>>
    THEN make_mixed_stream(stream_id,
            (IF Strip(current_content) # <<>>
             THEN <<TextItem(current_content)>> ELSE <<>>)
            \o [i \in 1..Len(images) |-> ImageItem(images[i])],
            TRUE)
    ELSE IF images # <<>>
    THEN make_image_stream(stream_id, images[1], TRUE)
    ELSE make_text_stream(stream_id, current_content, TRUE)

\* msgtype == 'stream'
handle_stream(data, c, p) ==
    LET stream_id == data.stream_id IN
    IF is_finished(c, stream_id)
    THEN LET current_content == get_current_content(c, stream_id)
             turn == get_stream_data(c, stream_id)
         IN  \* None.get('images', []) raises AttributeError
             IF turn = NoTurn THEN Raised("AttributeError", c, p, 0)
             ELSE
             LET reply == final_response(stream_id, current_content, turn.images)
                 c2 == remove_stream(c, stream_id)
                 enc == encrypt_message(reply)
             IN  IF enc.exc # "none" THEN Raised(enc.exc, c2, p, 0)
                 ELSE Out(SealedResponse(enc.resp), c2, p, NoTask, 0, "dispatched")
    ELSE LET current_content == get_current_content(c, stream_id)
             reply == make_text_stream(stream_id, current_content, FALSE)
             enc == encrypt_message(reply)
         IN  IF enc.exc # "none" THEN Raised(enc.exc, c, p, 0)
             ELSE Out(SealedResponse(enc.resp), c, p, NoTask, 0, "dispatched")

\* msgtype == 'image'; dl[1] is whether process_encrypted_image succeeds
handle_image(data, c, p, agent, dl) ==
    LET img == process_encrypted_image(data.url, dl[1]) IN
    IF ~img.success
    THEN LET error_response ==
                 make_text_stream(generate_random_string(issued + 1),
                                  ImageFailed \o img.result, TRUE)
             enc == encrypt_message(error_response)
         IN  IF enc.exc # "none" THEN Raised(enc.exc, c, p, 1)
             ELSE Out(SealedResponse(enc.resp), c, p, NoTask, 1, "dispatched")
    ELSE LET stream_id == generate_random_string(issued + 1)
             initial_response == make_text_stream(stream_id, AnalysingImage, FALSE)
             enc == encrypt_message(initial_response)
         IN  IF enc.exc # "none" THEN Raised(enc.exc, c, p, 1)
             ELSE Out(SealedResponse(enc.resp), c, p,
                      Task(stream_id, DefaultPrompt, agent, <<img.result>>,
                           data.msgid),
                      1, "dispatched")

RECURSIVE MixedTexts(_)
\* text_parts of the loop over mixed_items: the non-empty text contents
MixedTexts(items) ==
    IF items = <<>> THEN <<>>
    ELSE LET i == Head(items) IN
         (IF i.msgtype = "text" /\ i.content # <<>> THEN <<i.content>> ELSE <<>>)
         \o MixedTexts(Tail(items))

RECURSIVE MixedImages(_, _, _)
\* images of the loop over mixed_items: the images with a url that
\* process_encrypted_image decrypts; k is the position of Head(items)
MixedImages(items, dl, k) ==
    IF items = <<>> THEN <<>>
    ELSE LET i == Head(items)
             img == process_encrypted_image(i.url, dl[k])
         IN  (IF i.msgtype = "image" /\ i.url # "" /\ img.success
              THEN <<img.result>> ELSE <<>>)
             \o MixedImages(Tail(items), dl, k + 1)

\* msgtype == 'mixed'
handle_mixed(data, c, p, agent, dl) ==
    LET text_parts == MixedTexts(data.items)
        images == MixedImages(data.items, dl, 1)
        combined_text == IF text_parts # <<>> THEN JoinNl(text_parts) ELSE <<>>
    IN
    IF combined_text # <<>> \/ images # <<>>
    THEN LET stream_id == generate_random_string(issued + 1)
             initial_message ==
                 IF images # <<>> /\ combined_text # <<>> THEN AnalysingMixed
                 ELSE IF images # <<>> THEN AnalysingImage
                 ELSE Processing
             initial_response == make_text_stream(stream_id, initial_message, FALSE)
             enc == encrypt_message(initial_response)
         IN  IF enc.exc # "none" THEN Raised(enc.exc, c, p, 1)
             ELSE Out(SealedResponse(enc.resp), c, p,
                      Task(stream_id,
                           IF combined_text # <<>> THEN combined_text
                           ELSE DefaultPrompt,
                           agent, images, data.msgid),
                      1, "dispatched")
    ELSE Out(PlainSuccess, c, p, NoTask, 0, "dispatched")

\* msgtype == 'event'.  event = data.get('event', '') is the string '' when
\* the key is missing, and ''.get raises AttributeError.
handle_event(data, c, p, agent) ==
    IF data.eventtype = NoEvent THEN Raised("AttributeError", c, p, 0)
    ELSE IF data.eventtype = "enter_chat"
    THEN LET agent_name == IF agent # NoAgent THEN agent ELSE "AI"
             welcome_card_response == make_welcome_template_card(agent_name)
             enc == encrypt_message(welcome_card_response)
         IN  IF enc.exc # "none" THEN Raised(enc.exc, c, p, 0)
             ELSE Out(SealedResponse(enc.resp), c, p, NoTask, 0, "dispatched")
    ELSE Out(PlainSuccess, c, p, NoTask, 0, "dispatched")

\* settings.WECOM_AIBOT_AGENT_MAPPING after json.loads: "bot1" is mapped to
\* the id "1", "bot2" to the text "abc", "bot3" to the JSON array [1].
WECOM_AIBOT_AGENT_MAPPING ==
    [b \in {"bot1", "bot2", "bot3"} |->
        CASE b = "bot1" -> "1" [] b = "bot2" -> "abc" [] OTHER -> "[1]"]

\* get_agent_id_from_aibot: mapping.get(aibotid)
get_agent_id_from_aibot(aibotid) ==
    IF aibotid \in DOMAIN WECOM_AIBOT_AGENT_MAPPING
    THEN WECOM_AIBOT_AGENT_MAPPING[aibotid] ELSE None

\* int(mapped_agent_id): a number for decimal text, ValueError for other
\* text, TypeError for a value that is neither text nor a number.
int(mapped_agent_id) ==
    CASE mapped_agent_id = "1" -> [exc |-> "none", value |-> 1]
      [] mapped_agent_id = "abc" -> [exc |-> "ValueError", value |-> 0]
      [] OTHER -> [exc |-> "TypeError", value |-> 0]

\* The query for the active Agent (lines 390-405): the directory holds
\* agent_db under the id 1.  except ValueError leaves agent None; any other
\* exception leaves the block.
find_agent(aibotid) ==
    LET mapped_agent_id == get_agent_id_from_aibot(aibotid) IN
    IF mapped_agent_id = None THEN [exc |-> "none", agent |-> NoAgent]
    ELSE LET agent_id == int(mapped_agent_id) IN
         IF agent_id.exc = "none" THEN [exc |-> "none", agent |-> agent_db]
         ELSE IF agent_id.exc = "ValueError"
         THEN [exc |-> "none", agent |-> NoAgent]
         ELSE [exc |-> agent_id.exc, agent |-> NoAgent]

\* handle_message for one request.  dl is the outcome of each image
\* download, marked the processed set mark_message_processed leaves behind.
handle_message(req, dl, marked) ==
    LET data == req.data
        msgid == data.msgid
    IN
    IF ~req.params
    THEN Out(HTTPException(400), cache, processed, NoTask, 0, "params")
    ELSE IF ~req.decrypt
    THEN Out(HTTPException(400), cache, processed, NoTask, 0, "decrypt")
    ELSE IF data.msgtype = NoField
    THEN Out(PlainSuccess, cache, processed, NoTask, 0, "nomsgtype")
    ELSE IF msgid # "" /\ is_message_processed(processed, msgid)
    THEN Out(PlainSuccess, cache, processed, NoTask, 0, "duplicate")
    ELSE
    LET p == IF msgid # "" THEN marked ELSE processed
        found == IF data.aibotid # "" THEN find_agent(data.aibotid)
                 ELSE [exc |-> "none", agent |-> NoAgent]
        agent == found.agent
    IN  IF found.exc # "none"
        THEN [Raised(found.exc, cache, p, 0) EXCEPT !.stage = "agent"]
        ELSE
        CASE data.msgtype = "text" -> handle_text(data, cache, p, agent)
          [] data.msgtype = "stream" -> handle_stream(data, cache, p)
          [] data.msgtype = "image" -> handle_image(data, cache, p, agent, dl)
          [] data.msgtype = "mixed" -> handle_mixed(data, cache, p, agent, dl)
          [] data.msgtype = "event" -> handle_event(data, cache, p, agent)
          [] OTHER -> Out(PlainSuccess, cache, p, NoTask, 0, "dispatched")

Launching == {"text", "image", "mixed"}

\* The message has something to relay: a text message its content, an image
\* message an image that downloads and decrypts, a mixed message a non-empty
\* text item or an image item that downloads and decrypts.
Usable(data, dl) ==
    CASE data.msgtype = "text" -> data.content # <<NoField>>
      [] data.msgtype = "image" -> dl[1]
      [] data.msgtype = "mixed" ->
            \E k \in 1..Len(data.items) :
                \/ data.items[k].msgtype = "text" /\ data.items[k].content # <<>>
                \/ data.items[k].msgtype = "image" /\ data.items[k].url # "" /\ dl[k]
      [] OTHER -> FALSE

\* The outcomes of the image downloads a message can cause, one per item.
Downloads(data) ==
    CASE data.msgtype = "image" -> [{1} -> BOOLEAN]
      [] data.msgtype = "mixed" -> [1..Len(data.items) -> BOOLEAN]
      [] OTHER -> {<<>>}

\* POST /callback/{botid}, for a request of R, at most max times: what the
\* handler does to the program's state.
Callback(R, max) ==
    /\ nreq < max
    /\ \E req \in R :
       \E dl \in Downloads(req.data),
          marked \in mark_message_processed(processed, req.data.msgid) :
          LET out == handle_message(req, dl, marked) IN
          /\ issued + out.used <= MaxStreams
          /\ cache' = out.cache
          /\ processed' = out.processed
          /\ relay' = IF out.task = NoTask THEN relay
                      ELSE [relay EXCEPT ![out.task.stream_id] = out.task.task]
          /\ issued' = issued + out.used
          /\ resp' = out.resp
          /\ last' = [msgtype |-> req.data.msgtype, msgid |-> req.data.msgid,
                      aibotid |-> req.data.aibotid,
                      stream_id |-> req.data.stream_id,
                      eventtype |-> req.data.eventtype,
                      usable |-> Usable(req.data, dl), stage |-> out.stage,
                      launched |-> IF out.task = NoTask THEN 0
                                   ELSE out.task.stream_id]
          /\ seen' = IF /\ req.decrypt
                        /\ req.data.msgtype \in Launching
                        /\ req.data.msgid # ""
                     THEN seen \cup {req.data.msgid} ELSE seen
          /\ nreq' = nreq + 1
          /\ UNCHANGED <<last_cleanup, now, agent_db>>

HandleMessage(R, max) ==
    /\ Callback(R, max)
    /\ UNCHANGED api

\* The text a stream reply carries: its content, or the content of the text
\* item its msg_item list starts with, or no text.
ReplyText(stream) ==
    IF "content" \in DOMAIN stream THEN stream.content
    ELSE IF stream.msg_item # <<>> /\ stream.msg_item[1].msgtype = "text"
    THEN stream.msg_item[1].text.content
    ELSE <<>>

\* The callback, with the reply of a stream poll recorded for its stream id
\* next to the reply recorded before it.
HandleMessagePolled(R, max) ==
    /\ Callback(R, max)
    /\ polled' =
          IF /\ last'.msgtype = "stream"
             /\ resp'.status = 200
             /\ resp'.sealed
             /\ resp'.plain.msgtype = "stream"
          THEN [polled EXCEPT ![last'.stream_id] =
                   [content |-> ReplyText(resp'.plain.stream),
                    finish |-> resp'.plain.stream.finish,
                    earlier |-> IF @ = NoPoll THEN NoPoll
                                ELSE [content |-> @.content,
                                      finish |-> @.finish]]]
          ELSE polled
    /\ UNCHANGED <<ncalls, call, appended, image_job>>

\* ------------------------------------------------ process_dify_response
\* What the AI backend's event stream can deliver to a relay.
Chunks ==
       {[event |-> "message", answer |-> a, conversation_id |-> None] :
            a \in Answers}
  \cup {[event |-> "message_end", answer |-> <<>>, conversation_id |-> cid] :
            cid \in ConversationIds}
  \cup {[event |-> e, answer |-> <<>>, conversation_id |-> None] :
            e \in {"error", "workflow_started"}}

\* Lines 100-112: the task starts, creates the turn and the Dify client.
RelayStart(sid) ==
    /\ relay[sid].pc = "scheduled"
    /\ LET r == create_stream(cache, last_cleanup, sid, relay[sid].user_query, now)
       IN  /\ cache' = r.cache
           /\ last_cleanup' = r.last_cleanup
    /\ relay' = [relay EXCEPT ![sid].pc =
                    IF relay[sid].images # <<>> THEN "uploading" ELSE "streaming"]
    /\ UNCHANGED <<processed, now, agent_db, issued, nreq, last, seen, resp>>
    /\ UNCHANGED api

\* upload_images_to_dify that lists every image, last image first
UploadedFiles_reversed(images, ok, k) ==
    [i \in 1..Len(images) |->
        [type |-> "image", transfer_method |-> "local_file",
         upload_file_id |-> <<"file", images[Len(images) + 1 - i]>>]]

RECURSIVE UploadedFiles(_, _, _)
\* upload_images_to_dify: a file reference for each image whose upload
\* succeeds, in order; a failed upload is logged and skipped.
UploadedFiles(images, ok, k) ==
    IF images = <<>> THEN <<>>
    ELSE (IF ok[k]
          THEN <<[type |-> "image", transfer_method |-> "local_file",
                  upload_file_id |-> <<"file", Head(images)>>]>>
          ELSE <<>>)
         \o UploadedFiles(Tail(images), ok, k + 1)

\* Lines 117-120: await upload_images_to_dify(images, ...)
RelayUpload(sid) ==
    /\ relay[sid].pc = "uploading"
    /\ \E ok \in [1..Len(relay[sid].images) -> BOOLEAN] :
          relay' = [relay EXCEPT
                       ![sid].files = UploadedFiles(relay[sid].images, ok, 1),
                       ![sid].pc = "streaming"]
    /\ UNCHANGED <<cache, processed, last_cleanup, now, agent_db, issued, nreq, last, seen, resp>>
    /\ UNCHANGED api

\* The loop body that drops the conversation id of message_end
on_chunk_finishing_only(c, sid, chunk) ==
    IF chunk.event = "message"
    THEN IF chunk.answer # <<>> THEN add_text_part(c, sid, chunk.answer) ELSE c
    ELSE IF chunk.event \in {"message_end", "error"}
    THEN mark_finished(c, sid)
    ELSE c

\* The body of `async for chunk in send_chat_message(...)` for one chunk:
\* the cache afterwards.
on_chunk(c, sid, chunk) ==
    IF chunk.event = "message"
    THEN IF chunk.answer # <<>> THEN add_text_part(c, sid, chunk.answer) ELSE c
    ELSE IF chunk.event = "message_end"
    THEN mark_finished(
             IF chunk.conversation_id # None
             THEN set_conversation_id(c, sid, chunk.conversation_id) ELSE c,
             sid)
    ELSE IF chunk.event = "error"
    \* error_stream = make_text_stream(...) is built and dropped
    THEN mark_finished(c, sid)
    ELSE c

RECURSIVE Fragments(_, _)
\* The number of answer fragments the relays of the ids in S have stored.
Fragments(S, r) ==
    IF S = {} THEN 0
    ELSE LET x == CHOOSE y \in S : TRUE
         IN  Len(r[x].sent) + Fragments(S \ {x}, r)

\* Lines 123-166: the stream delivers one chunk, of the chunks C.
RelayChunk(sid, C) ==
    /\ relay[sid].pc = "streaming"
    /\ \E chunk \in C :
          LET terminal == chunk.event \in {"message_end", "error"}
              stored == chunk.event = "message" /\ chunk.answer # <<>>
          IN
          /\ stored => Fragments(StreamIds, relay) < MaxChunks
          /\ cache' = on_chunk(cache, sid, chunk)
          /\ relay' = [relay EXCEPT
                ![sid].sent = IF stored THEN Append(@, chunk.answer) ELSE @,
                ![sid].pc = IF terminal THEN "closing" ELSE @,
                ![sid].ended = IF terminal THEN chunk.event ELSE @,
                ![sid].conversation_id =
                    IF chunk.event = "message_end" THEN chunk.conversation_id
                    ELSE @]
    /\ UNCHANGED <<processed, last_cleanup, now, agent_db, issued, nreq, last, seen, resp>>
    /\ UNCHANGED api

\* The event stream ends (the backend closes the response) with no
\* message_end and no error event: the loop falls through to `finally`.
RelayExhausted(sid) ==
    /\ relay[sid].pc = "streaming"
    /\ relay' = [relay EXCEPT ![sid].pc = "closing", ![sid].ended = "exhausted"]
    /\ UNCHANGED <<cache, processed, last_cleanup, now, agent_db, issued, nreq, last, seen, resp>>
    /\ UNCHANGED api

\* send_chat_message raises (DifyApiException): control passes to `finally`
\* with the exception pending.
RelayRaise(sid) ==
    /\ relay[sid].pc = "streaming"
    /\ relay' = [relay EXCEPT ![sid].pc = "closing", ![sid].ended = "exception"]
    /\ UNCHANGED <<cache, processed, last_cleanup, now, agent_db, issued, nreq, last, seen, resp>>
    /\ UNCHANGED api

\* Lines 168-175: await dify_service.close(), then, when an exception is
\* pending or close() raised, the handler of `except Exception`.
on_close(c, sid, raised) ==
    \* error_stream = make_text_stream(...) is built and dropped
    IF raised THEN mark_finished(c, sid) ELSE c

RelayClose(sid) ==
    /\ relay[sid].pc = "closing"
    /\ \E close_raises \in BOOLEAN :
          LET raised == relay[sid].ended = "exception" \/ close_raises IN
          /\ cache' = on_close(cache, sid, raised)
          /\ relay' = [relay EXCEPT
                ![sid].pc = "done",
                ![sid].ended = IF raised THEN "exception" ELSE @]
    /\ UNCHANGED <<processed, last_cleanup, now, agent_db, issued, nreq, last, seen, resp>>
    /\ UNCHANGED api

\* time.time() advances
Tick ==
    /\ now + TickStep <= MaxTicks * TickStep
    /\ now' = now + TickStep
    /\ UNCHANGED <<cache, processed, last_cleanup, relay, agent_db, issued, nreq, last, seen, resp>>
    /\ UNCHANGED api

\* ------------------------------------------------------------ specification
\* No direct call has been made.
NoCall == [op |-> "none", stream_id |-> 0]

NoRequest ==
    [msgtype |-> "none", msgid |-> "", aibotid |-> "", stream_id |-> 0,
     eventtype |-> "", usable |-> FALSE, stage |-> "none", launched |-> 0]

Init ==
    /\ cache = [s \in StreamIds |-> NoTurn]
    /\ processed = {}
    /\ last_cleanup = 0
    /\ now = 0
    /\ relay = [s \in StreamIds |-> IdleRelay]
    /\ agent_db = NoAgent
    /\ issued = 0
    /\ nreq = 0
    /\ last = NoRequest
    /\ seen = {}
    /\ resp = NoResponse
    /\ ncalls = 0
    /\ call = NoCall
    /\ appended = [s \in StreamIds |-> <<>>]
    /\ image_job = NoImage
    /\ polled = [s \in StreamIds |-> NoPoll]

\* The relays and the polls for them.
Next ==
    \/ HandleMessage(PollRequests, MaxRequests)
    \/ \E sid \in StreamIds : RelayStart(sid)
    \/ \E sid \in StreamIds : RelayChunk(sid, Chunks)
    \/ \E sid \in StreamIds : RelayExhausted(sid)
    \/ \E sid \in StreamIds : RelayRaise(sid)
    \/ \E sid \in StreamIds : RelayClose(sid)
    \/ Tick

Spec == Init /\ [][Next]_vars

\* The gateway left to run: the event loop runs every scheduled background
\* task, the AI backend's event stream comes to an end, dify_service.close()
\* returns, and time passes.  Nothing obliges the platform to send a callback.
RelayProgress(sid) ==
    RelayChunk(sid, Chunks) \/ RelayExhausted(sid) \/ RelayRaise(sid)

Fairness ==
    /\ WF_vars(Tick)
    /\ \A sid \in StreamIds :
          /\ WF_vars(RelayStart(sid))
          /\ WF_vars(RelayProgress(sid))
          /\ WF_vars(RelayClose(sid))

SpecLive == Init /\ [][Next]_vars /\ Fairness

InitInbound ==
    /\ cache = [s \in StreamIds |-> NoTurn]
    /\ processed = {}
    /\ last_cleanup = 0
    /\ now = 0
    /\ relay = [s \in StreamIds |-> IdleRelay]
    /\ agent_db \in Agents
    /\ issued = 0
    /\ nreq = 0
    /\ last = NoRequest
    /\ seen = {}
    /\ resp = NoResponse
    /\ ncalls = 0
    /\ call = NoCall
    /\ appended = [s \in StreamIds |-> <<>>]
    /\ image_job = NoImage
    /\ polled = [s \in StreamIds |-> NoPoll]

\* The dispatch of every kind of callback and the start of the relays it
\* launches, up to the point where a relay waits for the AI backend.
NextInbound ==
    \/ HandleMessage(Requests, MaxDeliveries)
    \/ \E sid \in StreamIds : RelayStart(sid)
    \/ \E sid \in StreamIds : RelayUpload(sid)

SpecInbound == InitInbound /\ [][NextInbound]_vars

\* The reply selection of a poll as a function of the turn it finds.  The
\* cache stores images (add_image) and the poll branch is written for turns
\* that hold them, so the turn of stream 1 is drawn with text parts and
\* images; its relay has ended.
ReplyTexts ==
    {<<>>} \cup {<<a>> : a \in Answers \ {<<>>}}
           \cup {<<a, b>> : a \in Answers \ {<<>>}, b \in Answers \ {<<>>}}

ReplyImages ==
    {<<>>} \cup {<<i>> : i \in {"img1", "img2"}}
           \cup {<<i, j>> : i \in {"img1", "img2"}, j \in {"img1", "img2"}}

ReplyPolls ==
    {Delivery(Data("stream", m, "", <<>>, "", <<>>, s, "")) :
        m \in {"", "m1"}, s \in StreamIds}

InitReply ==
    /\ \E parts \in ReplyTexts, images \in ReplyImages, finished \in BOOLEAN :
          /\ cache = [s \in StreamIds |->
                IF s = 1
                THEN [NewTurn(Query, 0) EXCEPT !.text_parts = parts,
                                               !.images = images,
                                               !.is_finished = finished]
                ELSE NoTurn]
          /\ relay = [s \in StreamIds |->
                IF s = 1
                THEN [IdleRelay EXCEPT !.pc = IF finished THEN "done" ELSE "streaming",
                                       !.user_query = Query, !.sent = parts,
                                       !.ended = IF finished THEN "message_end"
                                                 ELSE "none"]
                ELSE IdleRelay]
    /\ processed = {}
    /\ last_cleanup = 0
    /\ now = 0
    /\ agent_db = NoAgent
    /\ issued = 1
    /\ nreq = 0
    /\ last = NoRequest
    /\ seen = {}
    /\ resp = NoResponse
    /\ ncalls = 0
    /\ call = NoCall
    /\ appended = [s \in StreamIds |-> <<>>]
    /\ image_job = NoImage
    /\ polled = [s \in StreamIds |-> NoPoll]

NextReply == HandleMessage(ReplyPolls, MaxRequests)

SpecReply == InitReply /\ [][NextReply]_vars

\* ------------------------------------------------- messages with images
\* Image and mixed messages with up to two images of different urls, so that
\* the order of the images and the loss of one of them can be told.
TextQ == MsgItem("text", Query, "")
Image1 == MsgItem("image", <<>>, "u1")
Image2 == MsgItem("image", <<>>, "u2")

ImageLists ==
    {<<Image1>>, <<Image1, Image2>>, <<TextQ, Image1, Image2>>,
     <<Image1, TextQ, Image2>>}

ImageRequests ==
       {Delivery(Data("image", "", "bot1", <<>>, "u1", <<>>, 0, ""))}
  \cup {Delivery(Data("mixed", "", "bot1", <<>>, "", l, 0, "")) : l \in ImageLists}

NextImages ==
    \/ HandleMessage(ImageRequests, MaxDeliveries)
    \/ \E sid \in StreamIds : RelayStart(sid)
    \/ \E sid \in StreamIds : RelayUpload(sid)

SpecImages == InitInbound /\ [][NextImages]_vars

\* ------------------------------------------------------------- verify_url
\* WXBizJsonMsgCrypt.VerifyURL: it returns (0, the decrypted echo string),
\* returns (a non-zero code, None), or raises.
VerifyURL ==
    {[raised |-> FALSE, ret |-> 0, echostr |-> "echo"],
     [raised |-> FALSE, ret |-> 40001, echostr |-> ""],
     [raised |-> TRUE, ret |-> 0, echostr |-> ""]}

\* Response(content=text, media_type="text/plain")
PlainText(text) ==
    [status |-> 200, sealed |-> FALSE, text |-> text, plain |-> NoPlain]

\* verify_url whose except branch fails the call
verify_url_failing(v) ==
    IF v.raised THEN HTTPException(500)
    ELSE IF v.ret # 0 THEN PlainText("verify fail")
    ELSE PlainText(v.echostr)

\* GET /callback/{botid} with msg_signature, timestamp, nonce and echostr
verify_url(v) ==
    IF v.raised THEN PlainText("verify fail")
    ELSE IF v.ret # 0 THEN PlainText("verify fail")
    ELSE PlainText(v.echostr)

VerifyStage(v) ==
    IF v.raised THEN "verify_raised"
    ELSE IF v.ret # 0 THEN "verify_failed" ELSE "verified"

VerifyUrl(max) ==
    /\ nreq < max
    /\ \E v \in VerifyURL :
          /\ resp' = verify_url(v)
          /\ last' = [NoRequest EXCEPT !.stage = VerifyStage(v)]
    /\ nreq' = nreq + 1
    /\ UNCHANGED <<cache, processed, last_cleanup, now, relay, agent_db, issued, seen>>
    /\ UNCHANGED api

\* Both endpoints: every kind of POST callback, the URL verification, and
\* the start of the relays.
NextEndpoints ==
    \/ HandleMessage(Requests, MaxDeliveries)
    \/ VerifyUrl(MaxDeliveries)
    \/ \E sid \in StreamIds : RelayStart(sid)

SpecEndpoints == InitInbound /\ [][NextEndpoints]_vars

\* ------------------------------------------------ StreamMessageCache, direct
\* The cache driven through its methods, in any order: what its contract
\* promises to every caller, not only to the handler and the relay.
ClockSteps == {1800, 1801}
TextParts == Answers \ {<<>>}
Blobs == {"img1"}
CallConversationIds == {"c1", "c2"}

Called(op, sid) ==
    /\ ncalls' = ncalls + 1
    /\ call' = [op |-> op, stream_id |-> sid]
    /\ UNCHANGED <<processed, now, relay, agent_db, issued, nreq, last, seen, resp,
                   image_job, polled>>

CallCreateStream(sid) ==
    /\ ncalls < MaxCalls
    /\ LET r == create_stream(cache, last_cleanup, sid, Query, now)
       IN  /\ cache' = r.cache
           /\ last_cleanup' = r.last_cleanup
    /\ appended' = [appended EXCEPT ![sid] = <<>>]
    /\ Called("create_stream", sid)

CallAddTextPart(sid) ==
    /\ ncalls < MaxCalls
    /\ \E text \in TextParts :
          /\ cache' = add_text_part(cache, sid, text)
          /\ appended' = [appended EXCEPT ![sid] = Append(@, text)]
    /\ Called("add_text_part", sid)
    /\ UNCHANGED last_cleanup

CallAddImage(sid) ==
    /\ ncalls < MaxCalls
    /\ \E image_data \in Blobs : cache' = add_image(cache, sid, image_data)
    /\ Called("add_image", sid)
    /\ UNCHANGED <<last_cleanup, appended>>

CallSetConversationId(sid) ==
    /\ ncalls < MaxCalls
    /\ \E conversation_id \in CallConversationIds :
          cache' = set_conversation_id(cache, sid, conversation_id)
    /\ Called("set_conversation_id", sid)
    /\ UNCHANGED <<last_cleanup, appended>>

CallMarkFinished(sid) ==
    /\ ncalls < MaxCalls
    /\ cache' = mark_finished(cache, sid)
    /\ Called("mark_finished", sid)
    /\ UNCHANGED <<last_cleanup, appended>>

CallRemoveStream(sid) ==
    /\ ncalls < MaxCalls
    /\ cache' = remove_stream(cache, sid)
    /\ Called("remove_stream", sid)
    /\ UNCHANGED <<last_cleanup, appended>>

\* time.time() advances by one of ClockSteps
Elapse ==
    /\ \E d \in ClockSteps :
          /\ now + d <= MaxClock
          /\ now' = now + d
    /\ UNCHANGED <<cache, processed, last_cleanup, relay, agent_db, issued, nreq, last, seen, resp>>
    /\ UNCHANGED api

NextCache ==
    \/ \E sid \in StreamIds : CallCreateStream(sid)
    \/ \E sid \in StreamIds : CallAddTextPart(sid)
    \/ \E sid \in StreamIds : CallAddImage(sid)
    \/ \E sid \in StreamIds : CallSetConversationId(sid)
    \/ \E sid \in StreamIds : CallMarkFinished(sid)
    \/ \E sid \in StreamIds : CallRemoveStream(sid)
    \/ Elapse

SpecCache == Init /\ [][NextCache]_vars

\* =================================================================== claims
\* A callback was handled in this step.
Handled == nreq' = nreq + 1

\* This step handled a stream poll that got past the duplicate check.
Polled ==
    Handled /\ last'.msgtype = "stream" /\ last'.stage = "dispatched"

\* r is an HTTP 200 whose body is a sealed text-stream reply.
IsTextStream(r) ==
    /\ r.status = 200
    /\ r.sealed
    /\ r.plain.msgtype = "stream"
    /\ DOMAIN r.plain.stream = {"id", "finish", "content"}

\* part is an apology fragment ("抱歉，...")
IsApology(part) == Len(part) >= 1 /\ part[1] = Sorry[1]

\* C2: a poll for a stream id that was handed out in the immediate reply and
\* whose relay has not yet run create_stream is answered with a sealed text
\* stream with empty content and finish=false, never with an error or with
\* finish=true.
C2_PollBeforeRelay ==
    [][(Polled /\ relay[last'.stream_id].pc = "scheduled")
        => /\ IsTextStream(resp')
           /\ resp'.plain.stream.content = <<>>
           /\ resp'.plain.stream.finish = FALSE]_vars

\* C3: a poll for a stream id whose turn was created and is no longer in the
\* cache (consumed by a finished poll, or swept) is answered with HTTP 200
\* and a sealed reply, and leaves the cache unchanged.
C3_PollMissingTurn ==
    [][(/\ Polled
        /\ relay[last'.stream_id].pc \notin {"none", "scheduled"}
        /\ cache[last'.stream_id] = NoTurn)
        => /\ resp'.status = 200
           /\ resp'.sealed
           /\ cache' = cache]_vars

\* C4: once a relay has terminated, its turn, if still cached, is finished,
\* whichever way the relay ended (message_end, error event, exception, or
\* the event sequence running out).
C4_TerminatedRelayFinished ==
    \A sid \in StreamIds :
        (relay[sid].pc = "done" /\ cache[sid] # NoTurn)
            => cache[sid].is_finished

\* C5: when a relay ended on an error event or on an exception, the last
\* fragment of its (still cached, finished) turn is an apology.
C5_ApologyAppended ==
    \A sid \in StreamIds :
        (/\ relay[sid].pc = "done"
         /\ relay[sid].ended \in {"error", "exception"}
         /\ cache[sid] # NoTurn)
            => /\ cache[sid].is_finished
               /\ cache[sid].text_parts # <<>>
               /\ IsApology(cache[sid].text_parts[Len(cache[sid].text_parts)])

\* C8: a poll that finds its turn finished is answered with finish=true and
\* the concatenation of every fragment the relay stored, and the turn is
\* removed from the cache.
C8_FinalPollCarriesAllText ==
    [][(/\ Polled
        /\ cache[last'.stream_id] # NoTurn
        /\ cache[last'.stream_id].is_finished)
        => /\ IsTextStream(resp')
           /\ resp'.plain.stream.id = last'.stream_id
           /\ resp'.plain.stream.finish = TRUE
           /\ resp'.plain.stream.content = Join(relay[last'.stream_id].sent)
           /\ cache'[last'.stream_id] = NoTurn]_vars

\* A final poll returned two fragments in order and evicted the turn.
C8_Witness ==
    /\ last.msgtype = "stream" /\ last.stage = "dispatched"
    /\ resp.sealed
    /\ resp.plain.stream.finish = TRUE
    /\ resp.plain.stream.content = <<"a", " ">>
    /\ relay[last.stream_id].sent = << <<"a">>, <<" ">> >>
    /\ cache[last.stream_id] = NoTurn

\* C9: a poll that finds its turn unfinished is answered with finish=false
\* and the text stored so far, and leaves every turn as it is.
C9_PartialPollReadsOnly ==
    [][(/\ Polled
        /\ cache[last'.stream_id] # NoTurn
        /\ ~cache[last'.stream_id].is_finished)
        => /\ IsTextStream(resp')
           /\ resp'.plain.stream.id = last'.stream_id
           /\ resp'.plain.stream.finish = FALSE
           /\ resp'.plain.stream.content
                 = Join(cache[last'.stream_id].text_parts)
           /\ cache' = cache]_vars

\* A partial poll returned stored text while two turns were cached.
C9_Witness ==
    /\ last.msgtype = "stream" /\ last.stage = "dispatched"
    /\ resp.sealed
    /\ resp.plain.stream.finish = FALSE
    /\ resp.plain.stream.content # <<>>
    /\ \A sid \in StreamIds : cache[sid] # NoTurn
    /\ ~cache[last.stream_id].is_finished

\* The relays scheduled so far for deliveries that carried msgid m.
Launches(m, r) == {sid \in StreamIds : r[sid].pc # "none" /\ r[sid].msgid = m}

\* This step handled a text, image or mixed message that got past the
\* duplicate check.
Accepted ==
    Handled /\ last'.msgtype \in Launching /\ last'.stage = "dispatched"

\* C1 as stated: the later of two deliveries of a text, image or mixed
\* message with the same non-empty msgid returns the bare 'success', changes
\* neither the cache nor the processed set, and leaves exactly one relay
\* scheduled in total for that msgid.
C1_ExactlyOneLaunch ==
    [][(/\ Handled
        /\ last'.msgtype \in Launching
        /\ last'.msgid \in seen)
        => /\ resp' = PlainSuccess
           /\ cache' = cache
           /\ processed' = processed
           /\ Cardinality(Launches(last'.msgid, relay')) = 1]_vars

\* C1 as amended: a delivery whose msgid is still in the processed set is
\* answered with the bare 'success', schedules no relay and changes neither
\* the cache nor the processed set.
C1_DuplicateIsNoOp ==
    [][(Handled /\ last'.msgid # "" /\ last'.msgid \in processed)
        => /\ resp' = PlainSuccess
           /\ last'.launched = 0
           /\ relay' = relay
           /\ cache' = cache
           /\ processed' = processed]_vars

\* A text, image or mixed message was redelivered after its first delivery
\* had scheduled a relay, and was answered as a duplicate.
C1_Witness ==
    /\ last.msgtype \in Launching
    /\ last.stage = "duplicate"
    /\ last.msgid \in seen
    /\ Cardinality(Launches(last.msgid, relay)) = 1
    /\ resp = PlainSuccess

\* C6: an enter_chat event is answered with HTTP 200 and a sealed
\* template_card reply; no relay is scheduled and the cache is unchanged.
C6_EnterChatWelcome ==
    [][(/\ Handled
        /\ last'.msgtype = "event"
        /\ last'.eventtype = "enter_chat"
        /\ last'.stage = "dispatched")
        => /\ resp'.status = 200
           /\ resp'.sealed
           /\ resp'.plain.msgtype = "template_card"
           /\ relay' = relay
           /\ cache' = cache]_vars

\* The reply is the immediate "thinking" reply for the relay just scheduled:
\* a sealed text stream, finish=false, under a stream id that was not in use,
\* with exactly that relay scheduled and not yet started.
ImmediateReply ==
    /\ IsTextStream(resp')
    /\ resp'.plain.stream.finish = FALSE
    /\ resp'.plain.stream.id = last'.launched
    /\ last'.launched \in StreamIds
    /\ last'.launched > issued
    /\ relay[last'.launched].pc = "none"
    /\ relay'[last'.launched].pc = "scheduled"
    /\ \A sid \in StreamIds \ {last'.launched} : relay'[sid] = relay[sid]
    /\ cache' = cache
    /\ cache[last'.launched] = NoTurn

\* C7 as stated: every non-duplicate text, image or mixed message gets the
\* immediate reply and exactly one relay.
C7_EveryMessageLaunches ==
    [][Accepted => ImmediateReply]_vars

\* C7 as amended: every non-duplicate text message with a content, image
\* message whose image downloads and decrypts, and mixed message with a
\* non-empty text item or an image that downloads and decrypts gets the
\* immediate reply and exactly one relay.
C7_UsableMessageLaunches ==
    [][(Accepted /\ last'.usable) => ImmediateReply]_vars

\* A mixed message was accepted and its relay is scheduled, not yet started.
C7_Witness ==
    /\ last.msgtype = "mixed"
    /\ last.stage = "dispatched"
    /\ last.usable
    /\ last.launched \in StreamIds
    /\ relay[last.launched].pc = "scheduled"
    /\ relay[last.launched].images # <<>>
    /\ resp.sealed
    /\ resp.plain.stream.id = last.launched
    /\ resp.plain.stream.finish = FALSE

\* The msg_item entries the protocol prescribes for a text and for an image.
ExpectText(t) == [msgtype |-> "text", text |-> [content |-> t]]

ExpectImage(i) ==
    [msgtype |-> "image", image |-> [base64 |-> B64(i), md5 |-> Md5(i)]]

ExpectImages(images) == [k \in 1..Len(images) |-> ExpectImage(images[k])]

\* r is an HTTP 200 whose body is a sealed stream reply of msg_item entries.
IsItemStream(r) ==
    /\ r.status = 200
    /\ r.sealed
    /\ r.plain.msgtype = "stream"
    /\ DOMAIN r.plain.stream = {"id", "finish", "msg_item"}

\* The poll of this step found the turn finished.
PolledFinished ==
    /\ Polled
    /\ cache[last'.stream_id] # NoTurn
    /\ cache[last'.stream_id].is_finished

\* The shape of the final reply for a turn with text t and images imgs, where
\* textItem says whether the mixed reply carries the text item.
FinalShape(t, imgs, textItem) ==
    /\ resp'.plain.stream.id = last'.stream_id
    /\ resp'.plain.stream.finish = TRUE
    /\ IF imgs # <<>> /\ t # <<>>
       THEN /\ IsItemStream(resp')
            /\ resp'.plain.stream.msg_item
                 = (IF textItem THEN <<ExpectText(t)>> ELSE <<>>)
                   \o ExpectImages(imgs)
       ELSE IF imgs # <<>>
       THEN /\ IsItemStream(resp')
            /\ resp'.plain.stream.msg_item # <<>>
            /\ \A k \in 1..Len(resp'.plain.stream.msg_item) :
                  \E j \in 1..Len(imgs) :
                      resp'.plain.stream.msg_item[k] = ExpectImage(imgs[j])
       ELSE /\ IsTextStream(resp')
            /\ resp'.plain.stream.content = t

\* C10 as stated: non-empty text (whitespace-only text included) and images
\* give a mixed stream of one text item followed by the images in order;
\* images and empty text an image stream; no images a text stream.
C10_ReplyShape ==
    [][PolledFinished
        => FinalShape(Join(cache[last'.stream_id].text_parts),
                      cache[last'.stream_id].images, TRUE)]_vars

\* C10 as amended: the mixed stream carries the text item only when the text
\* has a character that is not whitespace; for whitespace-only text with
\* images it carries the image items alone.
C10_ReplyShapeStripped ==
    [][PolledFinished
        => FinalShape(Join(cache[last'.stream_id].text_parts),
                      cache[last'.stream_id].images,
                      \E k \in 1..Len(Join(cache[last'.stream_id].text_parts)) :
                          Join(cache[last'.stream_id].text_parts)[k]
                              \notin {" ", "\n"})]_vars

\* A final reply was a mixed stream: the text item, then two images in order.
C10_Witness ==
    /\ last.msgtype = "stream" /\ last.stage = "dispatched"
    /\ IsItemStream(resp)
    /\ resp.plain.stream.finish = TRUE
    /\ resp.plain.stream.msg_item
         = <<ExpectText(<<"a", " ">>), ExpectImage("img1"), ExpectImage("img2")>>
    /\ cache[last.stream_id] = NoTurn

\* This step was a direct call of op on stream id s.
DirectCall(op, s) ==
    ncalls' = ncalls + 1 /\ call'.op = op /\ call'.stream_id = s

\* C11: once a turn is finished, no add_text_part, add_image,
\* set_conversation_id or mark_finished call on its stream id makes it
\* unfinished or removes it, and none of these calls on a stream id without a
\* turn creates a turn.
C11_FinishedStaysFinished ==
    [][\A s \in StreamIds :
        (\E op \in {"add_text_part", "add_image", "set_conversation_id",
                    "mark_finished"} : DirectCall(op, s))
        => /\ (cache[s] # NoTurn /\ cache[s].is_finished)
                => (cache'[s] # NoTurn /\ cache'[s].is_finished)
           /\ (cache[s] = NoTurn) => (cache'[s] = NoTurn)]_vars

\* add_text_part was called on a finished turn, which is still finished.
C11_Witness ==
    /\ call.op = "add_text_part"
    /\ cache[call.stream_id] # NoTurn
    /\ cache[call.stream_id].is_finished
    /\ cache[call.stream_id].text_parts # <<>>

\* C12: get_current_content is the concatenation, in call order, of the
\* fragments add_text_part was given for the turn, and the empty text for a
\* stream id without a turn.
C12_CurrentTextIsConcatenation ==
    \A s \in StreamIds :
        get_current_content(cache, s)
            = IF cache[s] = NoTurn THEN <<>> ELSE Join(appended[s])

\* Three fragments were appended to one turn.
C12_Witness ==
    \E s \in StreamIds :
        /\ cache[s] # NoTurn
        /\ appended[s] = << <<"a">>, <<" ">>, <<"a">> >>
        /\ get_current_content(cache, s) = <<"a", " ", "a">>

\* The reply of this step is an unsealed text/plain body.
IsPlainBody(r) == r.status = 200 /\ ~r.sealed

\* C13 as stated: every response of the two endpoints has status 200 and a
\* body that is a sealed reply, 'success' or (from the GET endpoint) the echo
\* string or 'verify fail'; nothing produces another status.
C13_Only200 ==
    [][Handled
        => /\ resp'.status = 200
           /\ \/ resp'.sealed
              \/ resp'.text = "success"
              \/ last'.stage \in {"verified", "verify_failed", "verify_raised"}]_vars

\* C13 as amended: the GET endpoint always answers 200; a POST callback is
\* answered 400 exactly when a parameter is missing or the decryption fails,
\* 500 only when the dispatch raised an exception, and otherwise 200 with a
\* sealed reply or 'success'.
C13_StatusByOutcome ==
    [][Handled
        => /\ resp'.status \in {200, 400, 500}
           /\ (resp'.status = 400) <=> (last'.stage \in {"params", "decrypt"})
           /\ (resp'.status = 500) => (last'.stage = "dispatched")
           /\ (resp'.status = 200)
                => \/ resp'.sealed
                   \/ resp'.text = "success"
                   \/ last'.stage \in {"verified", "verify_failed",
                                       "verify_raised"}]_vars

\* A text message without a content was answered with status 500.
C13_Witness ==
    /\ last.msgtype = "text"
    /\ last.stage = "dispatched"
    /\ ~last.usable
    /\ resp.status = 500

\* C15: the GET endpoint always answers 200 text/plain, with the decrypted
\* echo string when VerifyURL returns 0 and with 'verify fail' when it
\* returns another code or raises, and changes neither the cache nor the
\* processed set.
C15_VerifyUrlAlways200 ==
    [][(Handled /\ last'.stage \in {"verified", "verify_failed", "verify_raised"})
        => /\ IsPlainBody(resp')
           /\ resp'.text = IF last'.stage = "verified" THEN "echo"
                           ELSE "verify fail"
           /\ cache' = cache
           /\ processed' = processed
           /\ relay' = relay]_vars

\* VerifyURL raised while a turn was cached and a msgid was marked, and the
\* call was answered 'verify fail'.
C15_Witness ==
    /\ last.stage = "verify_raised"
    /\ resp = PlainText("verify fail")
    /\ processed # {}
    /\ \E s \in StreamIds : cache[s] # NoTurn

\* C14: a POST callback without msg_signature, timestamp or nonce, or whose
\* decryption fails, is failed with a 4xx status and changes nothing: no
\* msgid is marked, no turn is created or removed, no relay is scheduled.
C14_RejectedBeforeStateChange ==
    [][(Handled /\ last'.stage \in {"params", "decrypt"})
        => /\ resp'.status \in 400..499
           /\ ~resp'.sealed
           /\ processed' = processed
           /\ cache' = cache
           /\ relay' = relay
           /\ issued' = issued]_vars

\* A callback failed its decryption after an earlier one had been accepted.
C14_Witness ==
    /\ last.stage = "decrypt"
    /\ resp.status = 400
    /\ processed # {}
    /\ \E s \in StreamIds : relay[s].pc # "none"

\* C16: a decrypted message that is no text, image, mixed or stream message
\* and no enter_chat event (unknown or missing msgtype, an event with another
\* or no event descriptor) is answered with HTTP 200 and the bare 'success';
\* no relay is scheduled and the cache is unchanged.
C16_UnhandledIsSuccess ==
    [][(/\ Handled
        /\ last'.stage \in {"nomsgtype", "duplicate", "dispatched"}
        /\ \/ last'.msgtype \notin {"text", "image", "mixed", "stream", "event"}
           \/ last'.msgtype = "event" /\ last'.eventtype # "enter_chat")
        => /\ resp' = PlainSuccess
           /\ relay' = relay
           /\ cache' = cache]_vars

\* This step was a direct create_stream call, which invokes the sweep.
SweepInvoked == \E s \in StreamIds : DirectCall("create_stream", s)

\* The turn c holds for t was created more than the TTL before now.
Expired(c, t) == c[t] # NoTurn /\ now - c[t].created_time > StreamTTL

\* C17 as stated: after every create_stream no turn older than the TTL is
\* left in the cache, finished or not, and no younger turn has been removed.
C17_EverySweepEvicts ==
    [][SweepInvoked
        => \A t \in StreamIds :
              /\ ~Expired(cache', t)
              /\ (t # call'.stream_id /\ cache[t] # NoTurn /\ ~Expired(cache, t))
                    => cache'[t] = cache[t]]_vars

\* C17 as amended: a create_stream called at least CleanupInterval after the
\* last sweep that ran (or after the construction) leaves no turn older than
\* the TTL, finished or not, and removes no younger turn; a create_stream
\* called earlier removes no turn.
C17_DueSweepEvicts ==
    [][SweepInvoked
        => LET due == now - last_cleanup >= CleanupInterval IN
           \A t \in StreamIds :
              /\ due => ~Expired(cache', t)
              /\ (t # call'.stream_id /\ cache[t] # NoTurn
                    /\ (~due \/ ~Expired(cache, t)))
                    => cache'[t] = cache[t]]_vars

\* A create_stream swept an unfinished turn that held text: three calls were
\* made (create_stream, add_text_part, create_stream), none a remove_stream.
C17_Witness ==
    /\ call.op = "create_stream"
    /\ ncalls = 3
    /\ last_cleanup = now
    /\ now > StreamTTL
    /\ \E t \in StreamIds \ {call.stream_id} :
          cache[t] = NoTurn /\ appended[t] # <<>>

\* C18: every turn in the cache is eventually removed, by a poll that finds
\* it finished or by the sweep once it is older than the TTL, also when it is
\* never polled and no further message is accepted.  Stated for the sweep: a
\* cached turn that has outlived the TTL is eventually removed.
C18_ExpiredTurnEventuallyRemoved ==
    \A s \in StreamIds :
        (cache[s] # NoTurn /\ now - cache[s].created_time > StreamTTL)
            ~> (cache[s] = NoTurn)

\* C19: when mark_message_processed overflows the set, the evicted entries
\* are the oldest-inserted ones; in particular the msgid just marked is still
\* in the set when the call returns.
C19_JustMarkedIsKept ==
    [][(Handled /\ last'.stage = "dispatched" /\ last'.msgid # "")
        => last'.msgid \in processed']_vars

\* C20: the processed set never holds more than its capacity once
\* mark_message_processed has returned.
C20_ProcessedSetCapped ==
    Cardinality(processed) <= ProcessedCap

\* The set is full and a msgid that was delivered and marked has been evicted.
C20_Witness ==
    /\ Cardinality(processed) = ProcessedCap
    /\ \E m \in seen : m \notin processed

\* C21: set_conversation_id is set-once: a call on a turn that already holds
\* a conversation id leaves the stored id as it was.
C21_ConversationIdSetOnce ==
    [][\A s \in StreamIds :
        (/\ DirectCall("set_conversation_id", s)
         /\ cache[s] # NoTurn
         /\ cache[s].conversation_id # None)
        => /\ cache'[s] # NoTurn
           /\ cache'[s].conversation_id = cache[s].conversation_id]_vars

\* What process_encrypted_image returns for the image at url u, and the file
\* reference the relay passes to the AI backend for an uploaded image.
ImageOf(u) == <<"image-of", u>>

FileRef(image) ==
    [type |-> "image", transfer_method |-> "local_file",
     upload_file_id |-> <<"file", image>>]

\* seq holds some of the members of full, each once, in the order of full.
IsSubSeq(seq, full) ==
    \E idx \in [1..Len(seq) -> 1..Len(full)] :
        /\ \A i, j \in 1..Len(seq) : i < j => idx[i] < idx[j]
        /\ \A i \in 1..Len(seq) : seq[i] = full[idx[i]]

\* This step was the image upload of relay s.
Uploaded(s) == relay[s].pc = "uploading" /\ relay'[s].pc # "uploading"

\* A relay was scheduled for the message of this step with some of the
\* message's images, in the message's order, and the reply is unfinished.
LaunchedWithImages ==
    /\ last'.launched \in StreamIds
    /\ relay'[last'.launched].pc = "scheduled"
    /\ IsSubSeq(relay'[last'.launched].images, <<ImageOf("u1"), ImageOf("u2")>>)
    /\ IsTextStream(resp')
    /\ resp'.plain.stream.finish = FALSE

\* The upload ends with the relay opening the stream, whatever failed, with
\* references to some of its images, in their order.
UploadIsolated ==
    \A s \in StreamIds :
        Uploaded(s)
        => /\ relay'[s].pc = "streaming"
           /\ cache'[s] = cache[s]
           /\ IsSubSeq(relay'[s].files,
                       [i \in 1..Len(relay[s].images) |-> FileRef(relay[s].images[i])])

C23_DownloadOffRequestPath ==
    \A s \in StreamIds :
        relay[s].pc = "scheduled" => relay[s].images = <<>>

\* ------------------------------------------------------------------- C24
\* Callbacks from every kind of bot: one that names no bot, an unmapped bot,
\* and the three mapped ones; text messages and the enter_chat event.
Bots == {"", "bot0", "bot1", "bot2", "bot3"}

AgentRequests ==
       {Delivery(Data("text", "", b, Query, "", <<>>, 0, "")) : b \in Bots}
  \cup {Delivery(Data("event", "", b, <<>>, "", <<>>, 0, "enter_chat")) :
            b \in Bots}

NextAgents ==
    \/ HandleMessage(AgentRequests, MaxDeliveries)
    \/ \E sid \in StreamIds : RelayStart(sid)

SpecAgents == InitInbound /\ [][NextAgents]_vars

\* The last callback was a text message with content, from bot b.
TextFrom(b) ==
    /\ last.msgtype = "text"
    /\ last.usable
    /\ last.aibotid = b

\* C24: whatever the aibotid is mapped to (nothing, an id that is not an
\* integer, an agent that is missing or inactive), the lookup does not fail
\* the call: a text message with content is dispatched, and the relay it
\* launches uses the agent's configuration exactly when an active agent was
\* found for the mapped id, and the default configuration otherwise.
C24_AgentLookupDegrades ==
    \A b \in Bots :
        TextFrom(b) =>
            /\ last.stage = "dispatched"
            /\ resp.status = 200
            /\ last.launched # 0
            /\ relay[last.launched].agent =
                   IF b = "bot1" THEN agent_db ELSE NoAgent

\* ------------------------------------------------------------------- C25
\* process_encrypted_image, steps 3 and 4 (wecom_message.py lines 271-298).
Bytes == 0..255
BlockSize == 16

\* A downloaded image of n bytes after cipher.decrypt, ending in the byte p:
\* AES maps blocks one to one, so every content is some ciphertext's.
ImageData(n, p) == [k \in 1..n |-> IF k = n THEN p ELSE k % 256]

\* Python's data[:-pad_len]: data[:0] is empty, and a stop before the start
\* is the start.
SliceEnd(data, pad_len) ==
    IF pad_len = 0 THEN <<>>
    ELSE SubSeq(data, 1, Len(data) - pad_len)

\* except ...: return False, error_msg
ImageError(data) ==
    [data |-> data, done |-> TRUE, success |-> FALSE, result |-> ImageFailed]

\* cipher.decrypt raises ValueError unless the data is whole blocks;
\* decrypted_data[-1] raises IndexError on empty data; then the pad length is
\* tested and cut off.  Every exception is caught.
strip_padding(decrypted_data) ==
    IF Len(decrypted_data) % BlockSize # 0 THEN ImageError(decrypted_data)
    ELSE IF decrypted_data = <<>> THEN ImageError(decrypted_data)
    ELSE LET pad_len == decrypted_data[Len(decrypted_data)] IN
         IF pad_len > 32 THEN ImageError(decrypted_data)
         ELSE [data |-> decrypted_data, done |-> TRUE, success |-> TRUE,
               result |-> SliceEnd(decrypted_data, pad_len)]

InitCipher ==
    /\ cache = [s \in StreamIds |-> NoTurn]
    /\ processed = {}
    /\ last_cleanup = 0
    /\ now = 0
    /\ relay = [s \in StreamIds |-> IdleRelay]
    /\ agent_db = NoAgent
    /\ issued = 0
    /\ nreq = 0
    /\ last = NoRequest
    /\ seen = {}
    /\ resp = NoResponse
    /\ ncalls = 0
    /\ call = NoCall
    /\ appended = [s \in StreamIds |-> <<>>]
    /\ polled = [s \in StreamIds |-> NoPoll]
    /\ \E n \in 0..(BlockSize * MaxBlocks), p \in Bytes :
          image_job = [NoImage EXCEPT !.data = ImageData(n, p)]

DecryptImage ==
    /\ ~image_job.done
    /\ image_job' = strip_padding(image_job.data)
    /\ UNCHANGED <<cache, processed, last_cleanup, now, relay, agent_db, issued,
                   nreq, last, seen, resp, ncalls, call, appended, polled>>

NextCipher == DecryptImage

SpecCipher == InitCipher /\ [][NextCipher]_vars

\* C25: the pad length p is the final byte of the decrypted data; for p > 32
\* the result is a failure value, and for every p in 0..32 it is exactly the
\* decrypted data without its last p bytes, of the ciphertext's length
\* minus p.
C25_PadStripped ==
    (/\ image_job.done
     /\ image_job.data # <<>>
     /\ Len(image_job.data) % BlockSize = 0) =>
        LET n == Len(image_job.data)
            p == image_job.data[n]
        IN  IF p > 32 THEN ~image_job.success
            ELSE /\ image_job.success
                 /\ image_job.result = SubSeq(image_job.data, 1, n - p)
                 /\ Len(image_job.result) = n - p

\* ------------------------------------------------------------------- C26
\* A conversation of at most MaxDeliveries callbacks and its relays, with no
\* clock: text messages, polls and every step of process_dify_response.
NextRelay ==
    \/ HandleMessage(PollRequests, MaxDeliveries)
    \/ \E sid \in StreamIds : RelayStart(sid)
    \/ \E sid \in StreamIds : RelayChunk(sid, Chunks)
    \/ \E sid \in StreamIds : RelayExhausted(sid)
    \/ \E sid \in StreamIds : RelayRaise(sid)
    \/ \E sid \in StreamIds : RelayClose(sid)

SpecRelay == Init /\ [][NextRelay]_vars

\* The relay of s has left its loop on a message_end or error event.
AfterTerminal(s) ==
    /\ relay[s].pc = "closing"
    /\ relay[s].ended \in {"message_end", "error"}

\* C26: the text in a relay's turn is the concatenation, in arrival order, of
\* the non-empty answer fragments of the message events before the first
\* message_end or error event; what the relay does after that event leaves
\* the turn as it is; and a turn that message_end has finished holds the
\* conversation id the event carried (None when it carried none).
C26_RelayTextAndEnd ==
    [][\A s \in StreamIds :
          /\ cache'[s] # NoTurn =>
                /\ Join(cache'[s].text_parts) = Join(relay'[s].sent)
                /\ relay'[s].ended = "message_end" =>
                      /\ cache'[s].is_finished
                      /\ cache'[s].conversation_id = relay'[s].conversation_id
          /\ (AfterTerminal(s) /\ relay'[s].pc = "done") =>
                cache'[s] = cache[s]]_vars

\* C26 witness: a relay stored two fragments, met a message_end that carried
\* a conversation id, and has closed; its turn is still cached.
C26_Witness ==
    \E s \in StreamIds :
        /\ relay[s].pc = "done"
        /\ relay[s].ended = "message_end"
        /\ relay[s].conversation_id = "c1"
        /\ Len(relay[s].sent) = 2
        /\ cache[s] # NoTurn

\* ------------------------------------------------------------------- C27
\* The calls that write into a turn or drop it.
TurnWrites ==
    {"add_text_part", "add_image", "set_conversation_id", "mark_finished",
     "remove_stream"}

\* C27: add_text_part, add_image, set_conversation_id, mark_finished and
\* remove_stream called for a stream id that has no turn (never created, or
\* removed or swept since) return normally and leave the whole cache as it
\* was: no turn is made or changed, and the processed set and the time of
\* the last sweep stay.
C27_MissingTurnIsNoOp ==
    [][\A s \in StreamIds :
          ((\E op \in TurnWrites : DirectCall(op, s)) /\ cache[s] = NoTurn)
              => /\ cache' = cache
                 /\ processed' = processed
                 /\ last_cleanup' = last_cleanup]_vars

\* C27 witness: add_text_part was called last, on a stream id that has no
\* turn, while another stream id has a turn with text in it.
C27_Witness ==
    /\ call.op = "add_text_part"
    /\ cache[call.stream_id] = NoTurn
    /\ \E t \in StreamIds : cache[t] # NoTurn /\ cache[t].text_parts # <<>>

\* C27, for the relay: a step of a relay whose turn is gone (consumed by a
\* poll or swept) changes nothing in the cache, and the relay still runs to
\* its end.
C27_RelayOutputDiscarded ==
    [][\A s \in StreamIds :
          (relay[s].pc \in {"streaming", "closing"} /\ cache[s] = NoTurn
              /\ relay'[s] # relay[s])
              => cache' = cache]_vars

\* ------------------------------------------------------------------- C28
\* C28: when the handling of a message with a msgid ends in an error
\* response, the msgid is not left in the processed set, so that a redelivery
\* is handled again rather than answered as a duplicate.
\* mark_message_processed runs before the dispatch (lines 387-388) and no
\* error path takes the msgid back out.
C28_ErrorLeavesUnmarked ==
    (last.msgid # "" /\ resp.status >= 400 /\ last.stage = "dispatched")
        => last.msgid \notin processed

\* ------------------------------------------------------------------- C29
\* C29: the final reply for a finished turn that holds images and no text
\* carries every image of the turn, in append order; the reply that consumes
\* and evicts the turn drops none of them.
\* The images-only branch builds make_image_stream(stream_id, images[0], True)
\* (line 470).
C29_FinalReplyCarriesEveryImage ==
    [][(/\ PolledFinished
        /\ Join(cache[last'.stream_id].text_parts) = <<>>
        /\ cache[last'.stream_id].images # <<>>)
        => /\ IsItemStream(resp')
           /\ resp'.plain.stream.finish = TRUE
           /\ resp'.plain.stream.msg_item
                = ExpectImages(cache[last'.stream_id].images)
           /\ cache'[last'.stream_id] = NoTurn]_vars

\* ------------------------------------------------------------------- C30
\* A conversation whose polls are recorded: text messages, polls for every
\* stream id, and every step of the relays.
RecordedRequests ==
       {Delivery(Data("text", "", "", Query, "", <<>>, 0, ""))}
  \cup {Delivery(Data("stream", "", "", <<>>, "", <<>>, s, "")) : s \in StreamIds}

\* The events that decide what a poll reads: answer fragments, and the two
\* events that finish the turn.
PollChunks ==
    {c \in Chunks : c.conversation_id = None /\ c.event # "workflow_started"}

NextPolls ==
    \/ HandleMessagePolled(RecordedRequests, MaxRequests)
    \/ \E sid \in StreamIds : RelayStart(sid)
    \/ \E sid \in StreamIds : RelayChunk(sid, PollChunks)
    \/ \E sid \in StreamIds : RelayExhausted(sid)
    \/ \E sid \in StreamIds : RelayRaise(sid)
    \/ \E sid \in StreamIds : RelayClose(sid)

SpecPolls == Init /\ [][NextPolls]_vars

\* text a starts text b
IsPrefix(a, b) ==
    Len(a) <= Len(b) /\ SubSeq(b, 1, Len(a)) = a

\* C30: for each stream id the text of a poll reply extends the text of the
\* poll reply before it (and so of every earlier one), and a reply with
\* finish=true is never followed by a reply with finish=false.
C30_PollsPrefixMonotone ==
    \A s \in StreamIds :
        (polled[s] # NoPoll /\ polled[s].earlier # NoPoll) =>
            /\ IsPrefix(polled[s].earlier.content, polled[s].content)
            /\ polled[s].earlier.finish => polled[s].finish

\* C30 witness: a poll was answered with the partial text "a", and the next
\* poll for the same stream id with the final text "a" followed by " ".
C30_Witness ==
    \E s \in StreamIds :
        /\ polled[s] # NoPoll
        /\ polled[s].earlier = [content |-> <<"a">>, finish |-> FALSE]
        /\ polled[s].content = <<"a", " ">>
        /\ polled[s].finish
====
